---- MODULE Spec2Model ----
(***************************************************************************)
(* A model of scrape_youtube_hashtag.py: the incremental loader            *)
(* (scroll_to_load), the extractor (extract_initial_data_with_js,          *)
(* _dig_video_renderers), the normalizer (_text, parse_videos), the        *)
(* enricher (enrich_with_descriptions) and the pipeline (main).            *)
(*                                                                         *)
(* Each component has its own specification over the shared variables:     *)
(*   SpecLoader  scroll_to_load against a scripted feed of extent readings *)
(*   SpecParse   parse_videos applied to a bounded set of raw page states  *)
(*   SpecEnrich  enrich_with_descriptions, one action per statement        *)
(*   SpecMain    main from extraction to the written file                  *)
(***************************************************************************)
EXTENDS Integers, Sequences, FiniteSets, TLC

VARIABLES
    \* scroll_to_load
    lpc,            \* "start" (before line 61), "loop" (line 62), "done"
    max_scrolls,    \* the iteration budget
    feed,           \* the readings the browser returns, in order
    reads,          \* how many readings of feed have been returned
    last_height,    \* local last_height
    scrolls         \* scroll commands issued (line 63)

VARIABLES
    \* parse_videos
    ppc,            \* "start", "done"
    initial_data,   \* the argument of parse_videos
    parsed          \* its outcome: [raised, items]

VARIABLES
    \* enrich_with_descriptions
    epc,            \* the statement about to run
    items,          \* description_text of each record of the list
    idx,            \* position of the record being visited (0 before the loop)
    windows,        \* handles of the open browsing contexts
    current,        \* the handle commands are sent to (may be closed)
    orig,           \* local orig
    opened,         \* the handle window.open made for this record, 0 if none
    handles,        \* handles handed out so far
    desc,           \* local desc
    visited,        \* the records whose visit was started, in order
    failed          \* the records whose visit raised into the except clause

VARIABLES
    \* main
    mpc,                  \* the statement about to run
    page,                 \* window.ytInitialData of the loaded page
    include_description,  \* args.include_description
    m_data,               \* local initial_data
    m_items,              \* local items: [bound, list]
    raised,               \* the exception in flight, "none" if none
    driver_open,          \* the browser session is open
    output                \* the file of write_csv: [written, rows]

lvars == <<lpc, max_scrolls, feed, reads, last_height, scrolls>>
pvars == <<ppc, initial_data, parsed>>
evars == <<epc, items, idx, windows, current, orig, opened, handles, desc,
           visited, failed>>
mvars == <<mpc, page, include_description, m_data, m_items, raised,
           driver_open, output>>

vars == <<lvars, pvars, evars, mvars>>

(***************************************************************************)
(* Bounds                                                                  *)
(***************************************************************************)
MaxScrolls == 4

Min(a, b) == IF a <= b THEN a ELSE b

(***************************************************************************)
(* scroll_to_load (lines 60-71)                                            *)
(***************************************************************************)
\* The content extents the simulated browser may report.
Heights == {100, 250, 400}

\* All sequences over S of length n.
SeqsOfLen(S, n) == [1..n -> S]

\* A budget of N iterations asks the browser for at most N + 1 readings.
Feeds == SeqsOfLen(Heights, MaxScrolls + 1)

LoaderInit ==
    /\ lpc = "start"
    /\ max_scrolls \in 0..MaxScrolls
    /\ feed \in Feeds
    /\ reads = 0
    /\ last_height = 0
    /\ scrolls = 0

LoaderIdle ==
    /\ lpc = "idle"
    /\ max_scrolls = 0
    /\ feed = <<>>
    /\ reads = 0
    /\ last_height = 0
    /\ scrolls = 0

ParseIdle ==
    /\ ppc = "idle"
    /\ initial_data = <<>>
    /\ parsed = <<>>

EnrichIdle ==
    /\ epc = "idle"
    /\ items = <<>>
    /\ idx = 0
    /\ windows = {}
    /\ current = 0
    /\ orig = 0
    /\ opened = 0
    /\ handles = 0
    /\ desc = <<>>
    /\ visited = <<>>
    /\ failed = {}

MainIdle ==
    /\ mpc = "idle"
    /\ page = <<>>
    /\ include_description = FALSE
    /\ m_data = <<>>
    /\ m_items = <<>>
    /\ raised = "none"
    /\ driver_open = FALSE
    /\ output = <<>>

\* line 61: last_height = scrollHeight
ScrollStart ==
    /\ lpc = "start"
    /\ last_height' = feed[reads + 1]
    /\ reads' = reads + 1
    /\ lpc' = "loop"
    /\ UNCHANGED <<max_scrolls, feed, scrolls>>
    /\ UNCHANGED <<pvars, evars, mvars>>

\* One mutation of ScrollIteration: last_height is never updated (line 71 lost).
ScrollIterationStale ==
    /\ lpc = "loop"
    /\ scrolls < max_scrolls
    /\ scrolls' = scrolls + 1
    /\ reads' = reads + 1
    /\ lpc' = IF feed[reads + 1] = last_height THEN "done" ELSE "loop"
    /\ UNCHANGED <<max_scrolls, feed, last_height>>
    /\ UNCHANGED <<pvars, evars, mvars>>

\* Another mutation of ScrollIteration: the break of lines 69-70 is lost.
ScrollIterationNoBreak ==
    /\ lpc = "loop"
    /\ scrolls < max_scrolls
    /\ scrolls' = scrolls + 1
    /\ reads' = reads + 1
    /\ last_height' = feed[reads + 1]
    /\ lpc' = "loop"
    /\ UNCHANGED <<max_scrolls, feed>>
    /\ UNCHANGED <<pvars, evars, mvars>>

\* lines 62-71, one pass of the for loop: the scroll command (63), the waits
\* (64-67), the reading (68), the comparison and break (69-70), the update (71).
ScrollIteration ==
    /\ lpc = "loop"
    /\ scrolls < max_scrolls
    /\ scrolls' = scrolls + 1
    /\ reads' = reads + 1
    /\ LET now_height == feed[reads + 1]
       IN  IF now_height = last_height
           THEN /\ lpc' = "done"
                /\ UNCHANGED last_height
           ELSE /\ lpc' = "loop"
                /\ last_height' = now_height
    /\ UNCHANGED <<max_scrolls, feed>>
    /\ UNCHANGED <<pvars, evars, mvars>>

\* line 62: range(max_scrolls) is exhausted
ScrollExhausted ==
    /\ lpc = "loop"
    /\ scrolls >= max_scrolls
    /\ lpc' = "done"
    /\ UNCHANGED <<max_scrolls, feed, reads, last_height, scrolls>>
    /\ UNCHANGED <<pvars, evars, mvars>>

LoaderNext == ScrollStart \/ ScrollIteration \/ ScrollExhausted

InitLoader == LoaderInit /\ ParseIdle /\ EnrichIdle /\ MainIdle

SpecLoader == InitLoader /\ [][LoaderNext]_vars

\* The first iteration k (1-based) whose reading equals the reading before it,
\* counted in the feed: reading k + 1 against reading k; 0 when there is none
\* among the first n iterations.
FirstRepeat(f, n) ==
    IF \E k \in 1..n : f[k + 1] = f[k]
    THEN CHOOSE k \in 1..n : f[k + 1] = f[k] /\ \A j \in 1..(k - 1) : f[j + 1] # f[j]
    ELSE 0

\* C3: scroll_to_load with budget N performs at most N iterations; it stops
\* right after the first iteration whose reading equals the one before it and
\* scrolls no more; when every iteration changes the extent it performs
\* exactly N iterations and terminates.
C3_BudgetAndEarlyExit ==
    /\ scrolls <= max_scrolls
    /\ lpc = "done" =>
          LET k == FirstRepeat(feed, max_scrolls)
          IN  /\ scrolls = (IF k = 0 THEN max_scrolls ELSE k)
              /\ reads = scrolls + 1
    /\ lpc = "loop" =>
          \A j \in 1..scrolls : feed[j + 1] # feed[j]

C3_Witness ==
    /\ lpc = "done"
    /\ max_scrolls = 4
    /\ scrolls = 3
    /\ feed[4] = feed[3]

\* C4 as stated: with the readings 100, 250, 250, 400 and a budget of 4 the
\* loop stops after the third iteration.
C4_StopsAfterThird ==
    (/\ lpc = "done"
     /\ max_scrolls = 4
     /\ SubSeq(feed, 1, 4) = <<100, 250, 250, 400>>) => scrolls = 3

\* C4 amended: with the readings 100, 250, 250, 400 and a budget of 4 the
\* loop stops after the second iteration, on the third reading (the first
\* repeat); the third and fourth iterations are never performed and the
\* reading 400 is never taken.
C4_StopsAfterSecond ==
    (/\ max_scrolls = 4
     /\ SubSeq(feed, 1, 4) = <<100, 250, 250, 400>>) =>
        /\ scrolls <= 2
        /\ reads <= 3
        /\ lpc = "done" => scrolls = 2 /\ reads = 3
        /\ (scrolls = 2) => lpc = "done"

C4_Witness ==
    /\ lpc = "done"
    /\ max_scrolls = 4
    /\ SubSeq(feed, 1, 4) = <<100, 250, 250, 400>>
    /\ scrolls = 2

(***************************************************************************)
(* JSON-like values, as Selenium hands them to Python: None, str, dict     *)
(* (insertion-ordered, keys distinct) and list.  A str is its sequence of  *)
(* pieces, so that "" is <<>> and concatenation is \o.  Raise stands for   *)
(* an expression that raised instead of yielding a value.                  *)
(***************************************************************************)
Null == [t |-> "null", s |-> <<>>, kv |-> <<>>, elems |-> <<>>]
Str(x) == [t |-> "str", s |-> x, kv |-> <<>>, elems |-> <<>>]
Dict(pairs) == [t |-> "dict", s |-> <<>>, kv |-> pairs, elems |-> <<>>]
List(xs) == [t |-> "list", s |-> <<>>, kv |-> <<>>, elems |-> xs]
Raise == [t |-> "raise", s |-> <<>>, kv |-> <<>>, elems |-> <<>>]

EmptyStr == Str(<<>>)
EmptyDict == Dict(<<>>)
EmptyList == List(<<>>)

\* key in d
Has(d, key) == \E i \in 1..Len(d.kv) : d.kv[i][1] = key

\* d[key]
Lookup(d, key) == d.kv[CHOOSE i \in 1..Len(d.kv) : d.kv[i][1] = key][2]

\* d.get(key, default): only a dict has .get (AttributeError otherwise)
Get(d, key, default) ==
    IF d.t # "dict" THEN Raise
    ELSE IF Has(d, key) THEN Lookup(d, key)
    ELSE default

\* Python truth value of a value
Truthy(v) ==
    CASE v.t = "null" -> FALSE
      [] v.t = "str" -> v.s # <<>>
      [] v.t = "dict" -> v.kv # <<>>
      [] v.t = "list" -> v.elems # <<>>

\* a or b; b is evaluated only when a is falsy
Or(a, b) ==
    IF a.t = "raise" THEN Raise
    ELSE IF Truthy(a) THEN a
    ELSE b

\* v[0]: IndexError on an empty list or str, KeyError on a dict, TypeError on None
Index0(v) ==
    IF v.t = "list" /\ v.elems # <<>> THEN v.elems[1]
    ELSE IF v.t = "str" /\ v.s # <<>> THEN Str(<<v.s[1]>>)
    ELSE Raise

(***************************************************************************)
(* _dig_video_renderers (lines 90-98)                                      *)
(***************************************************************************)
\* obj.values() of a dict, in the dict's order
Values(obj) == [i \in 1..Len(obj.kv) |-> obj.kv[i][2]]

\* line 92
IsContainerHolder(obj) ==
    /\ obj.t = "dict"
    /\ Has(obj, "videoRenderer")
    /\ Lookup(obj, "videoRenderer").t = "dict"

RECURSIVE _dig_twice(_), _dig_each_twice(_)
\* One mutation of _dig_video_renderers: the container is yielded at the test
\* of line 92 and once more when the loop over the values reaches it.
_dig_twice(obj) ==
    IF obj.t = "dict"
    THEN (IF IsContainerHolder(obj)
          THEN <<Lookup(obj, "videoRenderer"), Lookup(obj, "videoRenderer")>>
          ELSE <<>>)
         \o _dig_each_twice(Values(obj))
    ELSE IF obj.t = "list" THEN _dig_each_twice(obj.elems)
    ELSE <<>>

_dig_each_twice(xs) ==
    IF xs = <<>> THEN <<>>
    ELSE _dig_twice(Head(xs)) \o _dig_each_twice(Tail(xs))

RECURSIVE _dig_video_renderers(_), _dig_each(_)
\* lines 90-98: the sequence the generator yields
_dig_video_renderers(obj) ==
    IF obj.t = "dict"
    THEN (IF IsContainerHolder(obj) THEN <<Lookup(obj, "videoRenderer")>> ELSE <<>>)
         \o _dig_each(Values(obj))
    ELSE IF obj.t = "list" THEN _dig_each(obj.elems)
    ELSE <<>>

\* lines 94-95 and 97-98: yield from each value in turn
_dig_each(xs) ==
    IF xs = <<>> THEN <<>>
    ELSE _dig_video_renderers(Head(xs)) \o _dig_each(Tail(xs))

(***************************************************************************)
(* _text (lines 101-104)                                                   *)
(***************************************************************************)
RECURSIVE JoinTexts(_)
\* line 104: "".join(part.get("text", "") for part in runs), runs a list
JoinTexts(parts) ==
    IF parts = <<>> THEN EmptyStr
    ELSE LET piece == Get(Head(parts), "text", EmptyStr)
             rest == JoinTexts(Tail(parts))
         IN  IF piece.t # "str" \/ rest.t = "raise" THEN Raise
             ELSE Str(piece.s \o rest.s)

\* lines 101-104.  Iterating a non-empty str or dict yields str parts, which
\* have no .get.
_text(runs) ==
    IF runs.t = "raise" THEN Raise
    ELSE IF ~Truthy(runs) THEN Null
    ELSE IF runs.t = "list" THEN JoinTexts(runs.elems)
    ELSE Raise

(***************************************************************************)
(* parse_videos (lines 107-141)                                            *)
(***************************************************************************)
YOUTUBE_BASE == <<"https://www.youtube.com">>

\* v.get(key, default) where v itself may have raised
GetOf(v, key, default) == IF v.t = "raise" THEN Raise ELSE Get(v, key, default)

\* lines 110-114
Title(vr) ==
    Or(GetOf(Index0(GetOf(Get(vr, "title", EmptyDict), "runs", List(<<EmptyDict>>))),
             "text", Null),
       Or(GetOf(Get(vr, "title", EmptyDict), "simpleText", Null),
          EmptyStr))

\* line 115
VideoId(vr) == Get(vr, "videoId", EmptyStr)

\* line 118; the f-string of a str is the str itself
Url(video_id) == Str(YOUTUBE_BASE \o <<"/watch?v=">> \o video_id.s)

\* line 119
ChannelName(vr) == _text(GetOf(Get(vr, "ownerText", EmptyDict), "runs", Null))

\* lines 120-123
PublishedText(vr) ==
    Or(GetOf(Get(vr, "publishedTimeText", EmptyDict), "simpleText", Null),
       _text(GetOf(Get(vr, "publishedTimeText", EmptyDict), "runs", Null)))

\* lines 124-128
ViewsText(vr) ==
    Or(GetOf(Get(vr, "viewCountText", EmptyDict), "simpleText", Null),
       Or(_text(GetOf(Get(vr, "viewCountText", EmptyDict), "runs", Null)),
          _text(GetOf(Get(vr, "shortViewCountText", EmptyDict), "runs", Null))))

\* line 129
DurationText(vr) == GetOf(Get(vr, "lengthText", EmptyDict), "simpleText", Null)

\* lines 130-140: the VideoItem of a raw record with an identifier
VideoItem(vr) ==
    [title |-> Title(vr),
     video_id |-> VideoId(vr),
     url |-> Url(VideoId(vr)),
     channel_name |-> ChannelName(vr),
     published_text |-> PublishedText(vr),
     views_text |-> ViewsText(vr),
     duration_text |-> DurationText(vr),
     description_text |-> Null]

ItemRaises(it) ==
    \/ it.title.t = "raise"
    \/ it.channel_name.t = "raise"
    \/ it.published_text.t = "raise"
    \/ it.views_text.t = "raise"
    \/ it.duration_text.t = "raise"

Returned(xs) == [raised |-> FALSE, items |-> xs]
Raised == [raised |-> TRUE, items |-> <<>>]

RECURSIVE ParseEach(_, _)
\* lines 109-140: the loop over the raw records, acc the list built so far
ParseEach(vrs, acc) ==
    IF vrs = <<>> THEN Returned(acc)
    ELSE LET vr == Head(vrs)
         IN  IF Title(vr).t = "raise" THEN Raised
             ELSE IF ~Truthy(VideoId(vr)) THEN ParseEach(Tail(vrs), acc)
             ELSE IF ItemRaises(VideoItem(vr)) THEN Raised
             ELSE ParseEach(Tail(vrs), Append(acc, VideoItem(vr)))

\* lines 107-141
parse_videos(data) == ParseEach(_dig_video_renderers(data), <<>>)

(***************************************************************************)
(* The raw page states parse_videos is applied to.                         *)
(***************************************************************************)
MaxNodes == 4
MaxRuns == 2

\* All sequences over S of length 0..n.
SeqsUpTo(S, n) == UNION {SeqsOfLen(S, k) : k \in 0..n}

Frag(piece) == Dict(<<<<"text", Str(<<piece>>)>>>>)
Runs(xs) == Dict(<<<<"runs", List(xs)>>>>)
Simple(x) == Dict(<<<<"simpleText", Str(x)>>>>)

\* Fragment sequences of a field: fragments with a text and fragments without.
RunsOf(piece) == {Runs(xs) : xs \in SeqsUpTo({Frag(piece), EmptyDict}, MaxRuns)}

\* The shapes of each field of a raw record; <<>> is "key missing".
Missing == <<>>
IdShapes == {Missing, <<EmptyStr>>, <<Str(<<"abc123">>)>>}
TitleShapes ==
    {Missing, <<Runs(<<Frag("T")>>)>>, <<Runs(<<>>)>>, <<Simple(<<"S">>)>>,
     <<Dict(<<<<"runs", List(<<EmptyDict>>)>>, <<"simpleText", Str(<<"S">>)>>>>)>>}
OwnerShapes == {Missing, <<EmptyDict>>} \cup {<<r>> : r \in RunsOf("c")}
ViewShapes ==
    {Missing, <<Simple(<<"5 views">>)>>, <<Simple(<<>>)>>,
     <<Dict(<<<<"simpleText", Str(<<"5 views">>)>>, <<"runs", List(<<Frag("v")>>)>>>>)>>}
    \cup {<<r>> : r \in RunsOf("v")}
ShortShapes == {Missing, <<Runs(<<>>)>>, <<Runs(<<Frag("k")>>)>>}
TimeShapes ==
    {<<Missing, Missing>>,
     <<<<Simple(<<"1 day ago">>)>>, <<Simple(<<"3:15">>)>>>>,
     <<<<Runs(<<Frag("1 day ago")>>)>>, Missing>>}

\* key: value when the field is there, nothing when it is missing
Field(key, shape) == IF shape = Missing THEN <<>> ELSE <<<<key, shape[1]>>>>

RawRecords ==
    {Dict(Field("title", ti) \o Field("videoId", id) \o Field("ownerText", ow)
          \o Field("viewCountText", vc) \o Field("shortViewCountText", sv)
          \o Field("publishedTimeText", tm[1]) \o Field("lengthText", tm[2])) :
        ti \in TitleShapes, id \in IdShapes, ow \in OwnerShapes,
        vc \in ViewShapes, sv \in ShortShapes, tm \in TimeShapes}

Holder(vr) == Dict(<<<<"videoRenderer", vr>>>>)

\* Nested structures: the leaves are a scalar, three raw records (two with an
\* identifier, one without) and a raw record that holds a container itself.
RecA == Dict(<<<<"videoId", Str(<<"abc123">>)>>>>)
RecB == Dict(<<<<"videoId", Str(<<"def456">>)>>, <<"title", Simple(<<"S">>)>>>>)
RecNoId == EmptyDict
RecNest == Dict(<<<<"videoId", Str(<<"abc123">>)>>, <<"videoRenderer", RecB>>>>)
Leaves == {Str(<<"x">>), RecA, RecB, RecNoId, RecNest}

Keys == {"videoRenderer", "contents"}

\* The sequences of k distinct keys.
KeySeqs(k) == {ks \in SeqsOfLen(Keys, k) : \A i, j \in 1..k : ks[i] = ks[j] => i = j}

RECURSIVE TreesOfSize(_), ForestsOfSize(_, _)
\* The structures made of n nodes: a leaf, or a list or dict of structures.
TreesOfSize(n) ==
    IF n = 1 THEN Leaves
    ELSE UNION {{List(f) : f \in ForestsOfSize(n - 1, k)} : k \in 1..(n - 1)}
         \cup UNION {{Dict([i \in 1..k |-> <<ks[i], f[i]>>]) :
                        ks \in KeySeqs(k), f \in ForestsOfSize(n - 1, k)} :
                     k \in 1..Min(n - 1, Cardinality(Keys))}

\* The sequences of k structures with n nodes in all.
ForestsOfSize(n, k) ==
    IF k = 0 THEN (IF n = 0 THEN {<<>>} ELSE {})
    ELSE UNION {{<<t>> \o f : t \in TreesOfSize(i), f \in ForestsOfSize(n - i, k - 1)} :
                i \in 1..(n - k + 1)}

Trees == UNION {TreesOfSize(n) : n \in 1..MaxNodes}

PageStates == Trees \cup {Holder(vr) : vr \in RawRecords}

ParseInit ==
    /\ ppc = "start"
    /\ initial_data \in PageStates
    /\ parsed = Raised

\* items = parse_videos(initial_data)
Parse ==
    /\ ppc = "start"
    /\ parsed' = parse_videos(initial_data)
    /\ ppc' = "done"
    /\ UNCHANGED initial_data
    /\ UNCHANGED <<lvars, evars, mvars>>

ParseNext == Parse

InitParse == LoaderIdle /\ ParseInit /\ EnrichIdle /\ MainIdle

SpecParse == InitParse /\ [][ParseNext]_vars

(***************************************************************************)
(* The traversal order stated on paths: a path is the sequence of child    *)
(* positions from the root; a node comes before its descendants and an     *)
(* earlier child's subtree before a later child's.                         *)
(***************************************************************************)
Children(node) ==
    IF node.t = "dict" THEN Values(node)
    ELSE IF node.t = "list" THEN node.elems
    ELSE <<>>

RECURSIVE NodeAt(_, _)
NodeAt(obj, path) ==
    IF path = <<>> THEN obj
    ELSE NodeAt(Children(obj)[Head(path)], Tail(path))

RECURSIVE PathsFrom(_, _)
PathsFrom(obj, level) ==
    IF level = {} THEN {}
    ELSE level \cup
         PathsFrom(obj, UNION {{Append(q, i) : i \in 1..Len(Children(NodeAt(obj, q)))} :
                               q \in level})

AllPaths(obj) == PathsFrom(obj, {<<>>})

\* The places where a record container occurs: the mappings holding one.
HolderPaths(obj) == {q \in AllPaths(obj) : IsContainerHolder(NodeAt(obj, q))}

ContainerAt(obj, q) == Lookup(NodeAt(obj, q), "videoRenderer")

IsPrefix(q, r) == Len(q) <= Len(r) /\ \A i \in 1..Len(q) : q[i] = r[i]

\* q is met before r, top-down and left to right
Before(q, r) ==
    \/ q # r /\ IsPrefix(q, r)
    \/ \E i \in 1..Min(Len(q), Len(r)) :
          /\ q[i] < r[i]
          /\ \A j \in 1..(i - 1) : q[j] = r[j]

RECURSIVE InOrder(_)
InOrder(S) ==
    IF S = {} THEN <<>>
    ELSE LET first == CHOOSE q \in S : \A r \in S \ {q} : Before(q, r)
         IN  <<first>> \o InOrder(S \ {first})

\* The record containers in the order the traversal meets them.
ContainersInOrder(obj) ==
    LET order == InOrder(HolderPaths(obj))
    IN  [i \in 1..Len(order) |-> ContainerAt(obj, order[i])]

HasId(vr) == Truthy(VideoId(vr))

RECURSIVE WithId(_)
WithId(vrs) ==
    IF vrs = <<>> THEN <<>>
    ELSE (IF HasId(Head(vrs)) THEN <<Head(vrs)>> ELSE <<>>) \o WithId(Tail(vrs))

\* The state holds one record container and nothing else: vr is that record.
SingleRecord == 
    /\ ppc = "done"
    /\ IsContainerHolder(initial_data)
    /\ HolderPaths(initial_data) = {<<>>}

TheRecord == Lookup(initial_data, "videoRenderer")

\* C6: parse_videos drops each raw record without an identifier and does not
\* fail, whatever the shapes of the other fields (an empty title fragment
\* sequence included): the list is no longer than the raw records, every
\* returned record has an identifier, and every record with one is returned.
C6_DropsWithoutFailing ==
    ppc = "done" =>
        LET raw == ContainersInOrder(initial_data)
        IN  /\ ~parsed.raised
            /\ Len(parsed.items) <= Len(raw)
            /\ \A i \in 1..Len(parsed.items) : Truthy(parsed.items[i].video_id)
            /\ Len(parsed.items) = Len(WithId(raw))

\* C7: the records parse_videos returns are, in order and one per
\* occurrence, the records with an identifier among the containers met by the
\* top-down, left-to-right traversal.
C7_RecordsInTraversalOrder ==
    ppc = "done" =>
        LET expected == WithId(ContainersInOrder(initial_data))
        IN  /\ ~parsed.raised
            /\ Len(parsed.items) = Len(expected)
            /\ \A i \in 1..Len(expected) :
                  parsed.items[i].video_id = VideoId(expected[i])

\* C7, on the structures for which parse_videos returns a list: order and
\* multiplicity are as claimed.
C7_OrderWhenReturned ==
    (ppc = "done" /\ ~parsed.raised) =>
        LET expected == WithId(ContainersInOrder(initial_data))
        IN  parsed.items = [i \in 1..Len(expected) |-> VideoItem(expected[i])]

\* C8: a record with an identifier gets an absent channel name when
\* "ownerText" is missing, and the empty string when the "runs" of
\* "ownerText" are an empty sequence.
C8_EmptyRunsGiveEmptyName ==
    (SingleRecord /\ HasId(TheRecord) /\ ~parsed.raised) =>
        /\ ~Has(TheRecord, "ownerText") => parsed.items[1].channel_name = Null
        /\ (/\ Has(TheRecord, "ownerText")
            /\ Lookup(TheRecord, "ownerText") = Runs(<<>>)) =>
               parsed.items[1].channel_name = EmptyStr

\* The alternative `key` of field `field` is present in vr.
Present(vr, field, key) == Has(vr, field) /\ Has(Lookup(vr, field), key)

Alternative(vr, field, key) == Lookup(Lookup(vr, field), key)

\* The views text as the precedence chain states it.
FirstPresentViews(vr) ==
    IF Present(vr, "viewCountText", "simpleText")
    THEN Alternative(vr, "viewCountText", "simpleText")
    ELSE IF Present(vr, "viewCountText", "runs")
    THEN JoinTexts(Alternative(vr, "viewCountText", "runs").elems)
    ELSE IF Present(vr, "shortViewCountText", "runs")
    THEN JoinTexts(Alternative(vr, "shortViewCountText", "runs").elems)
    ELSE Null

\* C9: the views text is the first present alternative among the plain
\* string, the concatenated "viewCountText" fragments and the concatenated
\* "shortViewCountText" fragments, never a merge; it is absent when none of
\* the three is present.  (An empty text is let pass as absent here: what is
\* asked is only that no later alternative is used.)
C9_FirstPresentAlternative ==
    (SingleRecord /\ HasId(TheRecord) /\ ~parsed.raised) =>
        \/ parsed.items[1].views_text = FirstPresentViews(TheRecord)
        \/ /\ ~Truthy(FirstPresentViews(TheRecord))
           /\ ~Truthy(parsed.items[1].views_text)

\* How many records of the list carry the identifier id.
Carrying(id) == Cardinality({i \in 1..Len(parsed.items) : parsed.items[i].video_id = id})

\* How many container occurrences of the raw page state carry the identifier id.
Occurrences(id) ==
    Cardinality({q \in HolderPaths(initial_data) : VideoId(ContainerAt(initial_data, q)) = id})

\* C10 as stated: no two records of the returned list have the same identifier.
C10_UniqueIds ==
    ppc = "done" =>
        \A i, j \in 1..Len(parsed.items) :
            parsed.items[i].video_id = parsed.items[j].video_id => i = j

\* C10 amended: the returned list carries an identifier at most as many times
\* as the raw page state has container occurrences carrying it; identifiers
\* are unique only when the containers' are, and the identifier determines
\* the URL.
C10_RepeatsOnlyWithContainers ==
    ppc = "done" =>
        \A i \in 1..Len(parsed.items) :
            /\ Carrying(parsed.items[i].video_id) <= Occurrences(parsed.items[i].video_id)
            /\ \A j \in 1..Len(parsed.items) :
                  parsed.items[i].video_id = parsed.items[j].video_id =>
                      parsed.items[i].url = parsed.items[j].url

C10_Witness ==
    /\ ppc = "done"
    /\ Len(parsed.items) = 2
    /\ parsed.items[1].video_id = parsed.items[2].video_id
    /\ Occurrences(parsed.items[1].video_id) = 2

(***************************************************************************)
(* enrich_with_descriptions (lines 144-180), one action per statement.     *)
(* The browser is a set of open contexts and the handle commands go to.    *)
(* A command sent to a closed context raises (NoSuchWindowException); each *)
(* command of the visit may also fail for reasons of the page or network.  *)
(***************************************************************************)
MaxRecords == 2

\* description_text of a record handed to the function
GivenDescriptions == {Null, Str(<<"old">>)}

\* What the script of line 154 may return: no meta element, an empty
\* content attribute, a description.
MetaResults == {Null, EmptyStr, Str(<<"meta">>)}

Micro(description) ==
    Dict(<<<<"microformat",
             Dict(<<<<"playerMicroformatRenderer",
                      Dict(<<<<"description", description>>>>)>>>>)>>>>)

\* What the script of line 157 may return.
FallbackResults ==
    {Null, Str(<<"x">>), EmptyDict, Micro(Simple(<<"player">>)), Micro(EmptyDict),
     Micro(Null), Dict(<<<<"microformat", Null>>>>)}

\* lines 158-168: desc after the fallback
FallbackDesc(data, before) ==
    IF Truthy(data) /\ data.t = "dict"
    THEN LET found ==
                 GetOf(GetOf(GetOf(Get(data, "microformat", EmptyDict),
                                   "playerMicroformatRenderer", EmptyDict),
                             "description", EmptyDict),
                       "simpleText", Null)
         IN  IF found.t = "raise" THEN Null ELSE found
    ELSE before

\* driver.window_handles[-1]: the context opened last
LastHandle == CHOOSE h \in windows : \A g \in windows : g <= h

EnrichInit ==
    /\ epc = "start"
    /\ \E n \in 1..MaxRecords : items \in SeqsOfLen(GivenDescriptions, n)
    /\ idx = 0
    /\ windows = {1}
    /\ current = 1
    /\ orig = 0
    /\ opened = 0
    /\ handles = 1
    /\ desc = Null
    /\ visited = <<>>
    /\ failed = {}

EnrichFrame == UNCHANGED <<lvars, pvars, mvars>>

\* line 145
EnrichStart ==
    /\ epc = "start"
    /\ orig' = current
    /\ epc' = "for"
    /\ UNCHANGED <<items, idx, windows, current, opened, handles, desc, visited, failed>>
    /\ EnrichFrame

\* line 146: the next item of the list
NextRecord ==
    /\ epc = "for"
    /\ idx < Len(items)
    /\ idx' = idx + 1
    /\ visited' = Append(visited, idx + 1)
    /\ opened' = 0
    /\ desc' = Null
    /\ epc' = "open"
    /\ UNCHANGED <<items, windows, current, orig, handles, failed>>
    /\ EnrichFrame

\* line 146: the list is exhausted
LoopDone ==
    /\ epc = "for"
    /\ idx >= Len(items)
    /\ epc' = "done"
    /\ UNCHANGED <<items, idx, windows, current, orig, opened, handles, desc, visited, failed>>
    /\ EnrichFrame

\* line 148: window.open in the active context
OpenContext ==
    /\ epc = "open"
    /\ \/ /\ current \in windows
          /\ handles' = handles + 1
          /\ windows' = windows \cup {handles + 1}
          /\ opened' = handles + 1
          /\ epc' = "wait"
       \/ /\ current \in windows
          /\ epc' = "wait"
          /\ UNCHANGED <<windows, opened, handles>>
       \/ /\ epc' = "except"
          /\ UNCHANGED <<windows, opened, handles>>
    /\ UNCHANGED <<items, idx, current, orig, desc, visited, failed>>
    /\ EnrichFrame

\* line 149: wait until there is more than one context, or time out
WaitForContext ==
    /\ epc = "wait"
    /\ \/ /\ Cardinality(windows) > 1
          /\ epc' = "switch"
       \/ epc' = "except"
    /\ UNCHANGED <<items, idx, windows, current, orig, opened, handles, desc, visited, failed>>
    /\ EnrichFrame

\* line 150
SwitchToContext ==
    /\ epc = "switch"
    /\ \/ /\ current' = LastHandle
          /\ epc' = "ready"
       \/ /\ epc' = "except"
          /\ UNCHANGED current
    /\ UNCHANGED <<items, idx, windows, orig, opened, handles, desc, visited, failed>>
    /\ EnrichFrame

\* lines 151-152: wait_for_page_ready may time out; try_accept_consent
\* swallows its own failure
PageReady ==
    /\ epc = "ready"
    /\ \/ epc' = "meta"
       \/ epc' = "except"
    /\ UNCHANGED <<items, idx, windows, current, orig, opened, handles, desc, visited, failed>>
    /\ EnrichFrame

\* lines 154-155
ReadMeta ==
    /\ epc = "meta"
    /\ \/ \E r \in MetaResults :
             /\ desc' = r
             /\ epc' = IF Truthy(r) THEN "assign" ELSE "fallback"
       \/ /\ epc' = "except"
          /\ UNCHANGED desc
    /\ UNCHANGED <<items, idx, windows, current, orig, opened, handles, visited, failed>>
    /\ EnrichFrame

\* lines 157-168
ReadFallback ==
    /\ epc = "fallback"
    /\ \/ \E data \in FallbackResults :
             /\ desc' = FallbackDesc(data, desc)
             /\ epc' = "assign"
       \/ /\ epc' = "except"
          /\ UNCHANGED desc
    /\ UNCHANGED <<items, idx, windows, current, orig, opened, handles, visited, failed>>
    /\ EnrichFrame

\* line 169
AssignDescription ==
    /\ epc = "assign"
    /\ items' = [items EXCEPT ![idx] = desc]
    /\ epc' = "close"
    /\ UNCHANGED <<idx, windows, current, orig, opened, handles, desc, visited, failed>>
    /\ EnrichFrame

\* One mutation of ExceptClause: the exception is not caught and ends the
\* function.
ExceptClauseAborts ==
    /\ epc = "except"
    /\ failed' = failed \cup {idx}
    /\ epc' = "done"
    /\ UNCHANGED <<items, idx, windows, current, orig, opened, handles, desc, visited>>
    /\ EnrichFrame

\* lines 170-171
ExceptClause ==
    /\ epc = "except"
    /\ failed' = failed \cup {idx}
    /\ items' = [items EXCEPT ![idx] = Null]
    /\ epc' = "close"
    /\ UNCHANGED <<idx, windows, current, orig, opened, handles, desc, visited>>
    /\ EnrichFrame

\* lines 173-176: driver.close() closes the active context, whichever it is;
\* its failure is swallowed
FinallyClose ==
    /\ epc = "close"
    /\ windows' = windows \ {current}
    /\ epc' = "return"
    /\ UNCHANGED <<items, idx, current, orig, opened, handles, desc, visited, failed>>
    /\ EnrichFrame

\* lines 177-180: switch back to orig; its failure is swallowed
FinallySwitch ==
    /\ epc = "return"
    /\ current' = IF orig \in windows THEN orig ELSE current
    /\ epc' = "for"
    /\ UNCHANGED <<items, idx, windows, orig, opened, handles, desc, visited, failed>>
    /\ EnrichFrame

EnrichNext ==
    \/ EnrichStart
    \/ NextRecord
    \/ LoopDone
    \/ OpenContext
    \/ WaitForContext
    \/ SwitchToContext
    \/ PageReady
    \/ ReadMeta
    \/ ReadFallback
    \/ AssignDescription
    \/ ExceptClause
    \/ FinallyClose
    \/ FinallySwitch

InitEnrich == LoaderIdle /\ ParseIdle /\ EnrichInit /\ MainIdle

SpecEnrich == InitEnrich /\ [][EnrichNext]_vars

\* C1: whatever the outcome of a record's visit, before the next record is
\* started the context opened for it is closed, the original context is
\* still open and it is the active one.
C1_BackAtOriginal ==
    (epc = "for" /\ idx >= 1 /\ idx < Len(items)) =>
        /\ opened \notin windows
        /\ orig \in windows
        /\ current = orig

\* C1, the visits that end without a failure: the cleanup holds for them.
C1_CleanAfterSuccess ==
    (epc = "for" /\ idx >= 1 /\ idx < Len(items) /\ idx \notin failed) =>
        /\ opened \notin windows
        /\ orig \in windows
        /\ current = orig

\* What holds of every state of the loop: the records are visited once each,
\* in list order; a record whose visit failed has no description; the
\* function ends only after the last record.
C2_State ==
    /\ visited = [i \in 1..idx |-> i]
    /\ idx <= Len(items)
    /\ \A i \in failed : i <= idx /\ items[i] = Null
    /\ epc = "done" => idx = Len(items)

\* What holds of every step: only the description of the record being visited
\* changes, and the except clause leaves it absent.
C2_Step ==
    /\ Len(items') = Len(items)
    /\ \A i \in 1..Len(items) : items'[i] # items[i] => (i = idx /\ epc \in {"assign", "except"})
    /\ epc = "except" => items'[idx] = Null

\* C2: a failure at any step of a record's visit leaves that record's
\* description absent and touches no other record; the loop is never
\* aborted: the records are visited once each, in list order, and the
\* function ends only after the last one.
C2_FailureIsLocal == []C2_State /\ [][C2_Step]_vars

C2_Witness ==
    /\ epc = "done"
    /\ Len(items) = 2
    /\ 1 \in failed
    /\ 2 \notin failed
    /\ items[2] = Str(<<"meta">>)

(***************************************************************************)
(* extract_initial_data_with_js (lines 83-87) and main (lines 206-225)     *)
(***************************************************************************)
\* window.ytInitialData was never set
Undefined == [t |-> "undefined", s |-> <<>>, kv |-> <<>>, elems |-> <<>>]

\* line 84, in the page: v || null.  undefined, null and "" are falsy in
\* JavaScript; every object and array is truthy, the empty ones too.
JsOrNull(v) ==
    IF v.t \in {"undefined", "null"} \/ (v.t = "str" /\ v.s = <<>>) THEN Null ELSE v

\* lines 83-87: the value returned, Raise for the RuntimeError of line 86
extract_initial_data_with_js(v) ==
    IF ~Truthy(JsOrNull(v)) THEN Raise ELSE JsOrNull(v)

\* The values window.ytInitialData may hold when line 212 runs.
Pages ==
    {Undefined, Null, EmptyStr, EmptyDict, EmptyList,
     Holder(Dict(<<<<"title", Runs(<<>>)>>>>))} \cup Trees

\* What the enricher may leave as a record's description.
EnrichedDescriptions == {Null, Str(<<"meta">>)}

Unbound == [bound |-> FALSE, list |-> <<>>]
Bound(xs) == [bound |-> TRUE, list |-> xs]
NoFile == [written |-> FALSE, rows |-> <<>>]

InitMain ==
    /\ LoaderIdle /\ ParseIdle /\ EnrichIdle
    /\ mpc = "load"
    /\ page \in Pages
    /\ include_description \in BOOLEAN
    /\ m_data = Null
    /\ m_items = Unbound
    /\ raised = "none"
    /\ driver_open = TRUE
    /\ output = NoFile

MainFrame == UNCHANGED <<lvars, pvars, evars>>

\* lines 208-211: navigation, readiness, consent, scrolling; a navigation
\* failure or a timeout raises
LoadPage ==
    /\ mpc = "load"
    /\ \/ /\ mpc' = "extract"
          /\ UNCHANGED raised
       \/ /\ raised' = "WebDriverException"
          /\ mpc' = "finally"
    /\ UNCHANGED <<page, include_description, m_data, m_items, driver_open, output>>
    /\ MainFrame

\* line 212
ExtractData ==
    /\ mpc = "extract"
    /\ IF extract_initial_data_with_js(page).t = "raise"
       THEN /\ raised' = "RuntimeError"
            /\ mpc' = "finally"
            /\ UNCHANGED m_data
       ELSE /\ m_data' = extract_initial_data_with_js(page)
            /\ mpc' = "parse"
            /\ UNCHANGED raised
    /\ UNCHANGED <<page, include_description, m_items, driver_open, output>>
    /\ MainFrame

\* line 213
ParseItems ==
    /\ mpc = "parse"
    /\ IF parse_videos(m_data).raised
       THEN /\ raised' = "Exception"
            /\ mpc' = "finally"
            /\ UNCHANGED m_items
       ELSE /\ m_items' = Bound(parse_videos(m_data).items)
            /\ mpc' = "enrich"
            /\ UNCHANGED raised
    /\ UNCHANGED <<page, include_description, m_data, driver_open, output>>
    /\ MainFrame

\* lines 214-215: the enricher leaves a description or None on each record
EnrichItems ==
    /\ mpc = "enrich"
    /\ IF include_description /\ m_items.list # <<>>
       THEN \E ds \in SeqsOfLen(EnrichedDescriptions, Len(m_items.list)) :
               m_items' = Bound([i \in 1..Len(ds) |->
                                   [m_items.list[i] EXCEPT !.description_text = ds[i]]])
       ELSE UNCHANGED m_items
    /\ mpc' = "finally"
    /\ UNCHANGED <<page, include_description, m_data, raised, driver_open, output>>
    /\ MainFrame

\* lines 216-217: driver.quit(), then the exception in flight leaves main
QuitDriver ==
    /\ mpc = "finally"
    /\ driver_open' = FALSE
    /\ mpc' = IF raised = "none" THEN "write" ELSE "aborted"
    /\ UNCHANGED <<page, include_description, m_data, m_items, raised, output>>
    /\ MainFrame

\* lines 219-225
WriteOutput ==
    /\ mpc = "write"
    /\ output' = [written |-> TRUE, rows |-> m_items.list]
    /\ mpc' = "exit"
    /\ UNCHANGED <<page, include_description, m_data, m_items, raised, driver_open>>
    /\ MainFrame

MainNext ==
    \/ LoadPage
    \/ ExtractData
    \/ ParseItems
    \/ EnrichItems
    \/ QuitDriver
    \/ WriteOutput

SpecMain == InitMain /\ [][MainNext]_vars

\* The page's data object is absent or null.
DataAbsent == page.t \in {"undefined", "null"}

\* The data object is there and holds no record container.
DataWithoutContainer == page.t \in {"dict", "list"} /\ HolderPaths(page) = {}

MainLoaded == mpc \in {"aborted", "exit"} /\ raised # "WebDriverException"

\* C5: without the data object the extraction fails and main is aborted with
\* no record list and no output; with a data object that holds no record
\* container main completes with an empty record list; the two outcomes
\* are never the same.
C5_MissingDataVersusNoRecords ==
    MainLoaded =>
        /\ DataAbsent =>
              (mpc = "aborted" /\ raised = "RuntimeError" /\ ~m_items.bound /\ ~output.written)
        /\ DataWithoutContainer =>
              (mpc = "exit" /\ raised = "none" /\ m_items = Bound(<<>>)
               /\ output = [written |-> TRUE, rows |-> <<>>])

====
